---- MODULE Spec2Model ----
(***************************************************************************)
(* Kart racer: the arcade vehicle motion model (Car.update / Car.reset),   *)
(* the race-progression state machine (CheckpointSystem) and the time      *)
(* formatting of the tracker and the HUD.                                  *)
(*                                                                         *)
(* Numbers are fixed point.  Lengths and speeds are in hundredths of a     *)
(* track unit (35 units = 3500), headings in milliradians, sines and       *)
(* cosines in thousandths, times in milliseconds.  The JavaScript doubles  *)
(* of the source are rounded toward zero at these resolutions.             *)
(***************************************************************************)
EXTENDS Integers, Sequences, FiniteSets, TLC

VARIABLES
    \* ---- Car (client/src/entities/Car.js)
    posX,            \* mesh.position.x
    posZ,            \* mesh.position.z
    rotation,        \* this.rotation
    currentSpeed,    \* this.currentSpeed
    \* ---- CheckpointSystem (entities/Checkpoint.js)
    currentCheckpoint,
    lapCount,
    raceStartTime,
    lapTimes,
    lastLapTime,
    bestLapTime,
    raceState,
    countdownValue,
    \* ---- environment
    timers,          \* pending setTimeout(tick, ...) callbacks: their due times, in firing order
    now,             \* performance.now()
    \* ---- time display (CheckpointSystem.formatTime, HUD.formatTime)
    fmtMs,           \* the duration handed to formatTime
    fmtText,         \* the texts the two formatTime methods returned for it
    \* ---- observation (history) variables
    notes,           \* notifications delivered since the last reset(), oldest first
    lastOp,          \* the operation that produced this state
    strike,          \* the boundary branch the last Car.update took
    startCtx,        \* what the latest startCountdown() call found
    resetFrom,       \* raceState at the latest reset() call
    carTicks,        \* Car.update calls so far
    starts,          \* startCountdown() calls so far
    resets,          \* reset() calls so far
    directHits,      \* hitCheckpoint() calls made from outside update() so far
    clockSteps,      \* clock advances so far
    frame            \* what the latest frame polled: input struct, deltaTime, restart keys, and the car it found

carVars == <<posX, posZ, rotation, currentSpeed, strike, carTicks>>
raceFields == <<currentCheckpoint, lapCount, raceStartTime, lapTimes, lastLapTime,
                bestLapTime, raceState, countdownValue>>
budget == <<starts, resets, directHits, clockSteps>>
raceVars == <<raceFields, timers, now, notes, startCtx, resetFrom, budget>>
hudVars == <<fmtMs, fmtText>>
inputVars == <<frame>>
vars == <<carVars, raceVars, hudVars, inputVars, lastOp>>

----------------------------------------------------------------------------
\* Bounds of the model.

\* Car.update calls explored from the start position.
MaxCarTicks == 3

\* Clock steps explored after construction.
MaxClockSteps == 5

\* startCountdown() calls explored.
MaxStarts == 2

\* reset() calls explored.
MaxResets == 1

\* Longest duration handed to formatTime, in whole minutes.
MaxMinutes == 60

\* Durations (ms) handed to formatTime: minutes, seconds and milliseconds
\* at the edges of their digit counts, 65432 among them.
Durations ==
    {m * 60000 + sec * 1000 + r :
        m \in {0, 1, 9, 10, MaxMinutes},
        sec \in {0, 5, 9, 10, 59},
        r \in {0, 1, 9, 10, 99, 100, 432, 999}}

\* Checkpoint zones a car driving the wrong way round visits.
MaxReverseVisits == 16

\* Frame times (ms) handed to Car.update.
DeltaTimes == {0, 15, 500, 1000}

BOOL == {TRUE, FALSE}

\* The per-tick input struct of InputManager.getInput().
Inputs == [accelerate : BOOL, brake : BOOL, turnLeft : BOOL, turnRight : BOOL]

----------------------------------------------------------------------------
\* Fixed-point arithmetic.

\* Units per track unit for lengths and speeds.
LenScale == 100

\* Units per 1.0 of a sine or cosine.
TrigScale == 1000

\* Milliseconds per second (deltaTime is in seconds in the source).
MsPerSec == 1000

Abs(a) == IF a < 0 THEN -a ELSE a

Max(a, b) == IF a >= b THEN a ELSE b

Min(a, b) == IF a <= b THEN a ELSE b

\* Division rounding toward zero.
Quot(a, b) == IF a >= 0 THEN a \div b ELSE -((-a) \div b)

RECURSIVE SqrtSearch(_, _, _)
SqrtSearch(n, lo, hi) ==
    IF lo >= hi THEN lo
    ELSE LET mid == (lo + hi + 1) \div 2
         IN  IF mid * mid <= n THEN SqrtSearch(n, mid, hi)
                               ELSE SqrtSearch(n, lo, mid - 1)

\* Math.sqrt, rounded down.
ISqrt(n) == SqrtSearch(n, 0, 46340)

\* Math.PI in milliradians.
PiMilli == 3142

\* sin x for x in [0, pi] milliradians, in thousandths (Bhaskara's rational
\* approximation, within 0.002 of the sine).
SinHalfTurn(x) ==
    LET p == x * (PiMilli - x)
    IN  (16 * p) \div ((5 * PiMilli * PiMilli - 4 * p) \div TrigScale)

\* Math.sin of a heading in milliradians, in thousandths.
Sin(h) ==
    LET r == h % (2 * PiMilli)
    IN  IF r <= PiMilli THEN SinHalfTurn(r) ELSE -SinHalfTurn(r - PiMilli)

\* Math.cos of a heading in milliradians, in thousandths.
Cos(h) == Sin(h + PiMilli \div 2)

----------------------------------------------------------------------------
\* CAR_CONFIG (utils/constants.js) and the constants of Car.update.

maxSpeed == 40
acceleration == 30
deceleration == 12
brakeForce == 40

\* turnSpeed: 1.8 rad/s, in milliradians per second.
turnSpeed == 1800

\* minSpeedToTurn = 0.5, in hundredths.
minSpeedToTurn == 50

\* Track radii of the oval.
TrackInner == 25
TrackOuter == 45

\* Car buffer subtracted from the track radii.
CarBuffer == 2

\* Extra inward margin of the push back.
PushMargin == 1

\* innerRadius = 25 + 2 and outerRadius = 45 - 2 of Car.update, in hundredths.
innerRadius == (TrackInner + CarBuffer) * LenScale
outerRadius == (TrackOuter - CarBuffer) * LenScale

\* maxReverse = CAR_CONFIG.maxSpeed * 0.3, in hundredths.
maxReverse == Quot(maxSpeed * LenScale * 3, 10)

\* Track.getStartPosition(): (centerRadius, 0, 0).
StartX == ((TrackInner + TrackOuter) \div 2) * LenScale
StartZ == 0

\* Track.getStartRotation().
StartRotation == 0

\* rate (units/s) times deltaTime (ms), in hundredths.
PerTick(rate, dt) == Quot(rate * LenScale * dt, MsPerSec)

----------------------------------------------------------------------------
\* Car.update, step by step.

\* Steering without the speed threshold: the car pivots at any speed.
SteerAtAnySpeed(speed, rot, input, dt) ==
    LET turnDirection == (IF input.turnRight THEN 1 ELSE 0) - (IF input.turnLeft THEN 1 ELSE 0)
        reverseMultiplier == IF speed >= 0 THEN 1 ELSE -1
    IN  rot + Quot(turnDirection * turnSpeed * reverseMultiplier * dt, MsPerSec)

\* Steering that ignores the direction of travel.
SteerSameInReverse(speed, rot, input, dt) ==
    IF Abs(speed) > minSpeedToTurn
    THEN LET turnDirection == (IF input.turnRight THEN 1 ELSE 0)
                              - (IF input.turnLeft THEN 1 ELSE 0)
         IN  rot + Quot(turnDirection * turnSpeed * dt, MsPerSec)
    ELSE rot

\* STEERING: the heading after the steering step.
Steer(speed, rot, input, dt) ==
    IF Abs(speed) > minSpeedToTurn
    THEN LET turnDirection == (IF input.turnRight THEN 1 ELSE 0)
                              - (IF input.turnLeft THEN 1 ELSE 0)
             reverseMultiplier == IF speed >= 0 THEN 1 ELSE -1
         IN  rot + Quot(turnDirection * turnSpeed * reverseMultiplier * dt, MsPerSec)
    ELSE rot

\* Friction without the one-sided clamp: the speed may swing past zero.
ThrottleFrictionOvershoots(speed, input, dt) ==
    IF input.accelerate THEN speed + PerTick(acceleration, dt)
    ELSE IF input.brake THEN speed - PerTick(brakeForce, dt)
    ELSE IF speed > 0 THEN speed - PerTick(deceleration, dt)
    ELSE IF speed < 0 THEN speed + PerTick(deceleration, dt)
    ELSE speed

\* The brake checked before the accelerator.
ThrottleBrakeFirst(speed, input, dt) ==
    IF input.brake THEN speed - PerTick(brakeForce, dt)
    ELSE IF input.accelerate THEN speed + PerTick(acceleration, dt)
    ELSE IF speed > 0 THEN Max(0, speed - PerTick(deceleration, dt))
    ELSE IF speed < 0 THEN Min(0, speed + PerTick(deceleration, dt))
    ELSE speed

\* ACCELERATION: the speed after throttle, brake or friction.
Throttle(speed, input, dt) ==
    IF input.accelerate THEN speed + PerTick(acceleration, dt)
    ELSE IF input.brake THEN speed - PerTick(brakeForce, dt)
    ELSE IF speed > 0 THEN Max(0, speed - PerTick(deceleration, dt))
    ELSE IF speed < 0 THEN Min(0, speed + PerTick(deceleration, dt))
    ELSE speed

\* Clamp speed.
ClampSpeed(speed) == Max(-maxReverse, Min(maxSpeed * LenScale, speed))

\* Bounce with the full speed: the damping factor left out.
BounceUndamped(speed) == -speed

\* Bounce back: currentSpeed *= -0.3.
Bounce(speed) == Quot(speed * (-3), 10)

\* newPos = position + forward.scale(currentSpeed * deltaTime).
NewPos(x, z, rot, speed, dt) ==
    LET amount == Quot(speed * dt, MsPerSec)
    IN  [x |-> x + Quot(Sin(rot) * amount, TrigScale),
         z |-> z + Quot(Cos(rot) * amount, TrigScale)]

\* Math.sqrt(x * x + z * z).
DistFromCenter(x, z) == ISqrt(x * x + z * z)

\* distFromCenter >= innerRadius && distFromCenter <= outerRadius, decided on
\* the squared distance so that rounding the root does not move the walls.
InBounds(x, z) ==
    /\ x * x + z * z >= innerRadius * innerRadius
    /\ x * x + z * z <= outerRadius * outerRadius

\* Push back without the clamp: the candidate distance kept as it is.
ClampedDistUnclamped(dist) == dist

\* Math.max(innerRadius + 1, Math.min(outerRadius - 1, distFromCenter)).
ClampedDist(dist) ==
    Max(innerRadius + PushMargin * LenScale,
        Min(outerRadius - PushMargin * LenScale, dist))

\* Wall strike that leaves the car where it stood before the update.
PushBackKeepsPosition(x, z, clamped) == [x |-> x, z |-> z]

\* (sin(angle), cos(angle)) * clampedDist with angle = atan2(x, z) of the
\* position before the update; atan2(0, 0) is 0.
PushBack(x, z, clamped) ==
    LET r == DistFromCenter(x, z)
    IN  IF r = 0 THEN [x |-> 0, z |-> clamped]
        ELSE [x |-> Quot(x * clamped, r), z |-> Quot(z * clamped, r)]

\* The car's fields as one value.
Car == [x |-> posX, z |-> posZ, rotation |-> rotation, speed |-> currentSpeed]

\* Car.update(input, deltaTime): the car after the call.  hit tells which
\* branch of the boundary check ran, candX and candZ are the candidate
\* position newPos, cand is its distance from the centre and clamped the
\* speed after the clamp step.
CarUpdate(car, input, dt) ==
    LET rot     == Steer(car.speed, car.rotation, input, dt)
        speed   == ClampSpeed(Throttle(car.speed, input, dt))
        newPos  == NewPos(car.x, car.z, rot, speed, dt)
        dist    == DistFromCenter(newPos.x, newPos.z)
        pushed  == PushBack(car.x, car.z, ClampedDist(dist))
    IN  IF InBounds(newPos.x, newPos.z)
        THEN [x |-> newPos.x, z |-> newPos.z, rotation |-> rot, speed |-> speed,
              hit |-> FALSE, cand |-> dist, clamped |-> speed,
              candX |-> newPos.x, candZ |-> newPos.z]
        ELSE [x |-> pushed.x, z |-> pushed.z, rotation |-> rot, speed |-> Bounce(speed),
              hit |-> TRUE, cand |-> dist, clamped |-> speed,
              candX |-> newPos.x, candZ |-> newPos.z]

\* Car.reset(position, rotation).
CarReset(x, z, rot) ==
    [x |-> x, z |-> z, rotation |-> rot, speed |-> 0,
     hit |-> FALSE, cand |-> DistFromCenter(x, z), clamped |-> 0,
     candX |-> x, candZ |-> z]

\* No key held and no frame rendered yet.
NoKeys == [accelerate |-> FALSE, brake |-> FALSE, turnLeft |-> FALSE, turnRight |-> FALSE]
NoFrame == [input |-> NoKeys, dt |-> 0, reset |-> FALSE, space |-> FALSE,
            before |-> [x |-> StartX, z |-> StartZ, rotation |-> StartRotation, speed |-> 0]]

\* Writes a result of CarUpdate or CarReset to the car's variables.
SetCar(c) ==
    /\ posX' = c.x
    /\ posZ' = c.z
    /\ rotation' = c.rotation
    /\ currentSpeed' = c.speed
    /\ strike' = [hit |-> c.hit, cand |-> c.cand, clamped |-> c.clamped,
                  candX |-> c.candX, candZ |-> c.candZ,
                  fromX |-> posX, fromZ |-> posZ]

----------------------------------------------------------------------------
\* CheckpointSystem (entities/Checkpoint.js).

\* null.
Null == -1

\* JavaScript truthiness of a time field: null and 0 are falsy.
Falsy(v) == v = Null \/ v = 0

\* Numeric coercion of a time field in a subtraction: null counts as 0.
Num(v) == IF v = Null THEN 0 ELSE v

totalLaps == 3

\* checkpointAngles has four entries.
NumCheckpoints == 4

\* Delay of the first countdown callback and between callbacks (ms).
FirstTickDelay == 500
TickDelay == 1000

\* centerRadius of createCheckpoints.
centerRadius == ((TrackInner + TrackOuter) \div 2) * LenScale

\* radius: trackWidth / 2 + 2, the detection radius.
DetectionRadius == ((TrackOuter - TrackInner) \div 2 + 2) * LenScale

\* position of checkpoint i: (cos(angle), sin(angle)) * centerRadius for the
\* angles 0, pi/2, pi, 3pi/2.
CheckpointPos(i) ==
    CASE i = 0 -> [x |-> centerRadius, z |-> 0]
      [] i = 1 -> [x |-> 0, z |-> centerRadius]
      [] i = 2 -> [x |-> -centerRadius, z |-> 0]
      [] i = 3 -> [x |-> 0, z |-> -centerRadius]

\* Vector3.Distance on the ground plane.
Distance(a, b) == ISqrt((a.x - b.x) * (a.x - b.x) + (a.z - b.z) * (a.z - b.z))

\* The tracker's fields, with the notifications it has delivered, as one value.
Race ==
    [currentCheckpoint |-> currentCheckpoint, lapCount |-> lapCount,
     raceStartTime |-> raceStartTime, lapTimes |-> lapTimes,
     lastLapTime |-> lastLapTime, bestLapTime |-> bestLapTime,
     raceState |-> raceState, countdownValue |-> countdownValue,
     notes |-> notes]

\* The constructor's field values.
NewRace ==
    [currentCheckpoint |-> 0, lapCount |-> 0, raceStartTime |-> Null,
     lapTimes |-> <<>>, lastLapTime |-> Null, bestLapTime |-> Null,
     raceState |-> "waiting", countdownValue |-> 3, notes |-> <<>>]

\* A delivered notification.
Note(kind, a, b) == [kind |-> kind, a |-> a, b |-> b]

\* finishRace() at clock value t.
finishRace(s, t) ==
    [s EXCEPT !.raceState = "finished",
              !.notes = Append(@, Note("finish", t - Num(s.raceStartTime), s.bestLapTime))]

\* completeLap() that leaves currentCheckpoint where the hit put it.
completeLapKeepsIndex(s, t) ==
    LET lapTime == IF ~Falsy(s.lastLapTime) THEN t - s.lastLapTime
                                            ELSE t - Num(s.raceStartTime)
        best    == IF Falsy(s.bestLapTime) \/ lapTime < s.bestLapTime
                   THEN lapTime ELSE s.bestLapTime
        lapped  == [s EXCEPT !.lapCount = @ + 1,
                             !.lastLapTime = t,
                             !.lapTimes = Append(@, lapTime),
                             !.bestLapTime = best,
                             !.notes = Append(@, Note("lap", s.lapCount + 1, lapTime))]
    IN  IF lapped.lapCount >= totalLaps THEN finishRace(lapped, t) ELSE lapped

\* completeLap() that measures every lap from the race start.
completeLapFromStart(s, t) ==
    LET lapTime == t - Num(s.raceStartTime)
        best    == IF Falsy(s.bestLapTime) \/ lapTime < s.bestLapTime
                   THEN lapTime ELSE s.bestLapTime
        lapped  == [s EXCEPT !.lapCount = @ + 1,
                             !.currentCheckpoint = 0,
                             !.lastLapTime = t,
                             !.lapTimes = Append(@, lapTime),
                             !.bestLapTime = best,
                             !.notes = Append(@, Note("lap", s.lapCount + 1, lapTime))]
    IN  IF lapped.lapCount >= totalLaps THEN finishRace(lapped, t) ELSE lapped

\* completeLap() that reports every lap to onLapComplete as lap 1.
completeLapAlwaysFirst(s, t) ==
    LET lapTime == IF ~Falsy(s.lastLapTime) THEN t - s.lastLapTime
                                            ELSE t - Num(s.raceStartTime)
        best    == IF Falsy(s.bestLapTime) \/ lapTime < s.bestLapTime
                   THEN lapTime ELSE s.bestLapTime
        lapped  == [s EXCEPT !.lapCount = @ + 1,
                             !.currentCheckpoint = 0,
                             !.lastLapTime = t,
                             !.lapTimes = Append(@, lapTime),
                             !.bestLapTime = best,
                             !.notes = Append(@, Note("lap", 1, lapTime))]
    IN  IF lapped.lapCount >= totalLaps THEN finishRace(lapped, t) ELSE lapped

\* completeLap() that stores the new duration over the latest one.
completeLapOverwritesLast(s, t) ==
    LET lapTime == IF ~Falsy(s.lastLapTime) THEN t - s.lastLapTime
                                            ELSE t - Num(s.raceStartTime)
        best    == IF Falsy(s.bestLapTime) \/ lapTime < s.bestLapTime
                   THEN lapTime ELSE s.bestLapTime
        lapped  == [s EXCEPT !.lapCount = @ + 1,
                             !.currentCheckpoint = 0,
                             !.lastLapTime = t,
                             !.lapTimes = IF @ = <<>> THEN <<lapTime>>
                                          ELSE [@ EXCEPT ![Len(@)] = lapTime],
                             !.bestLapTime = best,
                             !.notes = Append(@, Note("lap", s.lapCount + 1, lapTime))]
    IN  IF lapped.lapCount >= totalLaps THEN finishRace(lapped, t) ELSE lapped

\* completeLap() at clock value t.
completeLap(s, t) ==
    LET lapTime == IF ~Falsy(s.lastLapTime) THEN t - s.lastLapTime
                                            ELSE t - Num(s.raceStartTime)
        best    == IF Falsy(s.bestLapTime) \/ lapTime < s.bestLapTime
                   THEN lapTime ELSE s.bestLapTime
        lapped  == [s EXCEPT !.lapCount = @ + 1,
                             !.currentCheckpoint = 0,
                             !.lastLapTime = t,
                             !.lapTimes = Append(@, lapTime),
                             !.bestLapTime = best,
                             !.notes = Append(@, Note("lap", s.lapCount + 1, lapTime))]
    IN  IF lapped.lapCount >= totalLaps THEN finishRace(lapped, t) ELSE lapped

\* hitCheckpoint() without the index guard: every call advances.
hitCheckpointUnguarded(s, index, t) ==
    LET moved == [s EXCEPT !.currentCheckpoint = @ + 1]
    IN  IF moved.currentCheckpoint >= NumCheckpoints
        THEN completeLap(moved, t) ELSE moved

\* hitCheckpoint() that never completes a lap.
hitCheckpointNoLap(s, index, t) ==
    IF index # s.currentCheckpoint THEN s
    ELSE [s EXCEPT !.currentCheckpoint = @ + 1]

\* hitCheckpoint(index) at clock value t.
hitCheckpoint(s, index, t) ==
    IF index # s.currentCheckpoint THEN s
    ELSE LET moved == [s EXCEPT !.currentCheckpoint = @ + 1]
         IN  IF moved.currentCheckpoint >= NumCheckpoints
             THEN completeLap(moved, t) ELSE moved

\* update() without the race-state guard.
updateAnyState(s, carPosition, t) ==
    IF s.lapCount >= totalLaps THEN s
    ELSE LET timed == IF Falsy(s.raceStartTime) THEN [s EXCEPT !.raceStartTime = t] ELSE s
             distance == Distance(carPosition, CheckpointPos(timed.currentCheckpoint))
         IN  IF distance < DetectionRadius
             THEN hitCheckpoint(timed, timed.currentCheckpoint, t) ELSE timed

\* update(carPosition) at clock value t.
update(s, carPosition, t) ==
    IF s.raceState # "racing" THEN s
    ELSE IF s.lapCount >= totalLaps THEN s
    ELSE LET timed == IF Falsy(s.raceStartTime) THEN [s EXCEPT !.raceStartTime = t] ELSE s
             distance == Distance(carPosition, CheckpointPos(timed.currentCheckpoint))
         IN  IF distance < DetectionRadius
             THEN hitCheckpoint(timed, timed.currentCheckpoint, t) ELSE timed

\* tick() that gives the go one callback early.
tickGoEarly(s, t) ==
    IF s.countdownValue > 1
    THEN [race |-> [s EXCEPT !.notes = Append(@, Note("tick", s.countdownValue, 0)),
                             !.countdownValue = @ - 1],
          again |-> TRUE]
    ELSE [race |-> [s EXCEPT !.notes = Append(@, Note("go", 0, 0)),
                             !.raceState = "racing",
                             !.raceStartTime = t],
          again |-> FALSE]

\* tick() whose last callback announces the go without starting the race.
tickWithoutGo(s, t) ==
    IF s.countdownValue > 0
    THEN [race |-> [s EXCEPT !.notes = Append(@, Note("tick", s.countdownValue, 0)),
                             !.countdownValue = @ - 1],
          again |-> TRUE]
    ELSE [race |-> [s EXCEPT !.notes = Append(@, Note("go", 0, 0))],
          again |-> FALSE]

\* tick() whose go starts the race without setting the start time.
tickGoUntimed(s, t) ==
    IF s.countdownValue > 0
    THEN [race |-> [s EXCEPT !.notes = Append(@, Note("tick", s.countdownValue, 0)),
                             !.countdownValue = @ - 1],
          again |-> TRUE]
    ELSE [race |-> [s EXCEPT !.notes = Append(@, Note("go", 0, 0)),
                             !.raceState = "racing"],
          again |-> FALSE]

\* tick() that counts down once more when it gives the go.
tickCountsPastZero(s, t) ==
    IF s.countdownValue > 0
    THEN [race |-> [s EXCEPT !.notes = Append(@, Note("tick", s.countdownValue, 0)),
                             !.countdownValue = @ - 1],
          again |-> TRUE]
    ELSE [race |-> [s EXCEPT !.notes = Append(@, Note("go", 0, 0)),
                             !.countdownValue = @ - 1,
                             !.raceState = "racing",
                             !.raceStartTime = t],
          again |-> FALSE]

\* The countdown callback tick() at clock value t; again tells whether it
\* schedules itself once more.
tick(s, t) ==
    IF s.countdownValue > 0
    THEN [race |-> [s EXCEPT !.notes = Append(@, Note("tick", s.countdownValue, 0)),
                             !.countdownValue = @ - 1],
          again |-> TRUE]
    ELSE [race |-> [s EXCEPT !.notes = Append(@, Note("go", 0, 0)),
                             !.raceState = "racing",
                             !.raceStartTime = t],
          again |-> FALSE]

\* startCountdown(onTick, onGo), without the timer it sets.
startCountdown(s) == [s EXCEPT !.raceState = "countdown", !.countdownValue = 3]

\* reset() that forgets the lap timestamps.
resetKeepsLapTimes(s) ==
    [s EXCEPT !.currentCheckpoint = 0, !.lapCount = 0, !.raceStartTime = Null,
              !.lapTimes = <<>>,
              !.raceState = "waiting", !.countdownValue = 3, !.notes = <<>>]

\* reset(); the notification history starts afresh with each attempt.
reset(s) ==
    [s EXCEPT !.currentCheckpoint = 0, !.lapCount = 0, !.raceStartTime = Null,
              !.lapTimes = <<>>, !.lastLapTime = Null, !.bestLapTime = Null,
              !.raceState = "waiting", !.countdownValue = 3, !.notes = <<>>]

\* canMove() that lets the car drive in every race state.
canMoveAlways(s) == TRUE

\* canMove() that only excludes the finished race.
canMoveUnlessFinished(s) == s.raceState # "finished"

canMove(s) == s.raceState = "racing"

isRaceFinished(s) == s.raceState = "finished"

\* lapTimes.reduce((a, b) => a + b, 0).
RECURSIVE SeqSum(_)
SeqSum(q) == IF q = <<>> THEN 0 ELSE Head(q) + SeqSum(Tail(q))

\* getTotalTime() without the guard on an unset start time.
getTotalTimeUnguarded(s, t) ==
    IF s.raceState = "finished" THEN SeqSum(s.lapTimes)
    ELSE t - Num(s.raceStartTime)

\* getTotalTime() that keeps running after the finish.
getTotalTimeRunning(s, t) ==
    IF Falsy(s.raceStartTime) THEN 0
    ELSE t - s.raceStartTime

\* getTotalTime() at clock value t.
getTotalTime(s, t) ==
    IF Falsy(s.raceStartTime) THEN 0
    ELSE IF s.raceState = "finished" THEN SeqSum(s.lapTimes)
    ELSE t - s.raceStartTime

\* getRaceTime() at clock value t.
getRaceTime(s, t) == getTotalTime(s, t)

\* getCurrentLap() without the cap at the final lap.
getCurrentLapUncapped(s) == s.lapCount + 1

\* getCurrentLap().
getCurrentLap(s) == Min(s.lapCount + 1, totalLaps)

\* getTotalLaps().
getTotalLaps(s) == totalLaps

\* setTimeout(f, delay) at clock value t: timers fire in order of due time,
\* and in order of creation when due together.
RECURSIVE SetTimeout(_, _)
SetTimeout(q, due) ==
    IF q = <<>> THEN <<due>>
    ELSE IF Head(q) <= due THEN <<Head(q)>> \o SetTimeout(Tail(q), due)
    ELSE <<due>> \o q

\* Writes a tracker value to the tracker's variables.
SetRace(s) ==
    /\ currentCheckpoint' = s.currentCheckpoint
    /\ lapCount' = s.lapCount
    /\ raceStartTime' = s.raceStartTime
    /\ lapTimes' = s.lapTimes
    /\ lastLapTime' = s.lastLapTime
    /\ bestLapTime' = s.bestLapTime
    /\ raceState' = s.raceState
    /\ countdownValue' = s.countdownValue
    /\ notes' = s.notes

----------------------------------------------------------------------------
\* Time display.  A string is the sequence of its characters.

\* The decimal digit d as a character.
DigitChar(d) == <<"0", "1", "2", "3", "4", "5", "6", "7", "8", "9">>[d + 1]

\* Number.prototype.toString() of a non-negative integer.
RECURSIVE toString(_)
toString(n) ==
    IF n < 10 THEN <<DigitChar(n)>>
    ELSE toString(n \div 10) \o <<DigitChar(n % 10)>>

\* padStart that pads nothing.
PadStartNever(str, width, ch) == str

\* String.prototype.padStart(width, ch) for a one-character ch.
RECURSIVE PadStart(_, _, _)
PadStart(str, width, ch) ==
    IF Len(str) >= width THEN str
    ELSE PadStart(<<ch>> \o str, width, ch)

\* CheckpointSystem.formatTime(ms) for a non-negative integer ms.
\* totalSeconds = ms / 1000 is kept in thousandths, which is ms itself.
formatTime(ms) ==
    LET totalSeconds == ms
        minutes      == totalSeconds \div (60 * MsPerSec)
        seconds      == (totalSeconds % (60 * MsPerSec)) \div MsPerSec
        milliseconds == ms % MsPerSec
    IN  toString(minutes) \o <<":">> \o PadStart(toString(seconds), 2, "0")
            \o <<".">> \o PadStart(toString(milliseconds), 3, "0")

\* HUD.formatTime(ms) for an integer ms.
HUD_formatTime(ms) ==
    IF ms = 0 \/ ms <= 0 THEN <<"0", ":", "0", "0", ".", "0", "0", "0">>
    ELSE LET totalSeconds == ms
             minutes      == totalSeconds \div (60 * MsPerSec)
             seconds      == (totalSeconds % (60 * MsPerSec)) \div MsPerSec
             milliseconds == ms % MsPerSec
         IN  toString(minutes) \o <<":">> \o PadStart(toString(seconds), 2, "0")
                 \o <<".">> \o PadStart(toString(milliseconds), 3, "0")

\* No text has been produced yet.
NotFormatted == [tracker |-> <<>>, hud |-> <<>>]

----------------------------------------------------------------------------
\* The clock and the positions handed to update().

\* The clock advances in steps that meet every timer's due time.
ClockStep == FirstTickDelay

\* Positions handed to CheckpointSystem.update: the four checkpoint centres,
\* a point on the centre line midway between checkpoints 0 and 1 (in no
\* detection zone), and a point on the edge of checkpoint 0's zone.
TrackPoints ==
    {CheckpointPos(i) : i \in 0..(NumCheckpoints - 1)}
    \cup {[x |-> 2475, z |-> 2475],
          [x |-> centerRadius, z |-> DetectionRadius]}

\* Indexes handed to hitCheckpoint: every checkpoint and one past the last.
HitIndexes == 0..NumCheckpoints

----------------------------------------------------------------------------
\* The objects as constructed by Game.init, before startRace.

\* The car Game.init places at (x, z) with heading rot, at rest.
PlacedCar(x, z, rot) ==
    /\ posX = x
    /\ posZ = z
    /\ rotation = rot
    /\ strike = [hit |-> FALSE, cand |-> DistFromCenter(x, z), clamped |-> 0,
                 candX |-> x, candZ |-> z, fromX |-> x, fromZ |-> z]
    /\ carTicks = 0

\* The tracker, the timers and the clock after construction.
ConstructedRace ==
    /\ currentCheckpoint = NewRace.currentCheckpoint
    /\ lapCount = NewRace.lapCount
    /\ raceStartTime = NewRace.raceStartTime
    /\ lapTimes = NewRace.lapTimes
    /\ lastLapTime = NewRace.lastLapTime
    /\ bestLapTime = NewRace.bestLapTime
    /\ raceState = NewRace.raceState
    /\ countdownValue = NewRace.countdownValue
    /\ timers = <<>>
    /\ now = ClockStep
    /\ notes = <<>>
    /\ lastOp = "new"
    /\ startCtx = [stale |-> 0, afterReset |-> FALSE, at |-> 0]
    /\ resetFrom = "none"
    /\ starts = 0
    /\ resets = 0
    /\ directHits = 0
    /\ clockSteps = 0
    /\ fmtText = NotFormatted
    /\ frame = NoFrame

Constructed ==
    /\ PlacedCar(StartX, StartZ, StartRotation)
    /\ currentSpeed = 0
    /\ ConstructedRace

\* Initial state: nothing to display yet.
Init == Constructed /\ fmtMs = 0

----------------------------------------------------------------------------
\* Operations on the car alone.

CarUpdateCall(input, dt) ==
    /\ carTicks < MaxCarTicks
    /\ SetCar(CarUpdate(Car, input, dt))
    /\ carTicks' = carTicks + 1
    /\ lastOp' = "Car.update"
    /\ UNCHANGED <<raceVars, hudVars, inputVars>>

CarResetCall ==
    /\ lastOp = "Car.update"
    /\ SetCar(CarReset(StartX, StartZ, StartRotation))
    /\ lastOp' = "Car.reset"
    /\ UNCHANGED <<carTicks, raceVars, hudVars, inputVars>>

NextCar ==
    \/ \E input \in Inputs, dt \in DeltaTimes : CarUpdateCall(input, dt)
    \/ CarResetCall

SpecCar == Init /\ [][NextCar]_vars

----------------------------------------------------------------------------
\* Operations on the tracker alone: its methods called in any order, the
\* countdown callbacks firing when due, and the clock advancing.

StartCountdownCall ==
    /\ starts < MaxStarts
    /\ SetRace(startCountdown(Race))
    /\ timers' = SetTimeout(timers, now + FirstTickDelay)
    /\ startCtx' = [stale |-> Len(timers), afterReset |-> lastOp = "reset", at |-> now]
    /\ starts' = starts + 1
    /\ lastOp' = "startCountdown"
    /\ UNCHANGED <<carVars, hudVars, inputVars, now, resetFrom, resets, directHits, clockSteps>>

\* A pending callback has reached its due time.
TimerDue == IF timers = <<>> THEN FALSE ELSE Head(timers) <= now

\* The oldest due callback runs.
TimerFire ==
    /\ TimerDue
    /\ LET r == tick(Race, now)
       IN  /\ SetRace(r.race)
           /\ timers' = IF r.again THEN SetTimeout(Tail(timers), now + TickDelay)
                                   ELSE Tail(timers)
    /\ lastOp' = "tick"
    /\ UNCHANGED <<carVars, hudVars, inputVars, now, startCtx, resetFrom, budget>>

UpdateCall(pos) ==
    /\ SetRace(update(Race, pos, now))
    /\ lastOp' = "update"
    /\ UNCHANGED <<carVars, hudVars, inputVars, timers, now, startCtx, resetFrom, budget>>

\* hitCheckpoint(index) called from outside update(), at most once per
\* checkpoint.
HitCheckpointCall(index) ==
    /\ directHits < NumCheckpoints
    /\ SetRace(hitCheckpoint(Race, index, now))
    /\ directHits' = directHits + 1
    /\ lastOp' = "hitCheckpoint"
    /\ UNCHANGED <<carVars, hudVars, inputVars, timers, now, startCtx, resetFrom, starts, resets, clockSteps>>

ResetCall ==
    /\ resets < MaxResets
    /\ SetRace(reset(Race))
    /\ resets' = resets + 1
    /\ resetFrom' = raceState
    /\ lastOp' = "reset"
    /\ UNCHANGED <<carVars, hudVars, inputVars, timers, now, startCtx, starts, directHits, clockSteps>>

\* Time passes, up to the next callback's due time or else by one clock
\* step; a callback that is due runs before the clock moves on.
Advance ==
    /\ clockSteps < MaxClockSteps
    /\ ~TimerDue
    /\ now' = IF timers # <<>> THEN Head(timers) ELSE now + ClockStep
    /\ clockSteps' = clockSteps + 1
    /\ lastOp' = "advance"
    /\ UNCHANGED <<carVars, hudVars, inputVars, raceFields, notes, timers, startCtx, resetFrom, starts, resets, directHits>>

\* The tracker driven through the methods the game calls.
NextRace ==
    \/ StartCountdownCall
    \/ TimerFire
    \/ \E pos \in TrackPoints : UpdateCall(pos)
    \/ ResetCall
    \/ Advance

SpecRace == Init /\ [][NextRace]_vars

\* The same, with hitCheckpoint() also called directly.
NextApi ==
    \/ StartCountdownCall
    \/ TimerFire
    \/ \E pos \in TrackPoints : UpdateCall(pos)
    \/ \E index \in HitIndexes : HitCheckpointCall(index)
    \/ ResetCall
    \/ Advance

SpecApi == Init /\ [][NextApi]_vars

\* The tracker as the game drives it when no restart is requested: the
\* countdown is started, update() runs every frame, and the event loop runs
\* every callback once its delay has elapsed.
TimerWait ==
    /\ timers # <<>>
    /\ ~TimerDue
    /\ now' = Head(timers)
    /\ lastOp' = "wait"
    /\ UNCHANGED <<carVars, hudVars, inputVars, raceFields, notes, timers, startCtx, resetFrom, budget>>

NextLive ==
    \/ StartCountdownCall
    \/ TimerFire
    \/ TimerWait
    \/ \E pos \in TrackPoints : UpdateCall(pos)

\* setTimeout callbacks are never cancelled and the event loop is never
\* blocked, so a pending callback's delay elapses and a due callback runs.
SpecLive == Init /\ [][NextLive]_vars /\ WF_vars(TimerWait) /\ WF_vars(TimerFire)

----------------------------------------------------------------------------
\* One Car.update call on its own: a car anywhere on the track, at any
\* heading and speed the clamp allows, and one frame's input and deltaTime.

\* Positions on the x axis: the start, and a point next to each wall.
TickPositions == {[x |-> StartX, z |-> StartZ],
                  [x |-> innerRadius + PushMargin * LenScale, z |-> 0],
                  [x |-> outerRadius - PushMargin * LenScale, z |-> 0]}

\* Headings: the four quarter turns.
TickRotations == {0, PiMilli \div 2, -(PiMilli \div 2), PiMilli}

\* Speeds between -maxReverse and maxSpeed: the limits, the steering
\* threshold and its neighbours, standstill and cruising either way.
TickSpeeds == {-maxReverse, -(maxReverse \div 2), -(minSpeedToTurn + 1), -minSpeedToTurn,
               0, minSpeedToTurn, minSpeedToTurn + 1,
               (maxSpeed * LenScale) \div 2, maxSpeed * LenScale}

InitTick ==
    /\ \E p \in TickPositions, rot \in TickRotations : PlacedCar(p.x, p.z, rot)
    /\ currentSpeed \in TickSpeeds
    /\ ConstructedRace
    /\ fmtMs = 0

TickCall(input, dt) ==
    /\ lastOp = "new"
    /\ SetCar(CarUpdate(Car, input, dt))
    /\ carTicks' = carTicks + 1
    /\ frame' = [NoFrame EXCEPT !.input = input, !.dt = dt, !.before = Car]
    /\ lastOp' = "Car.update"
    /\ UNCHANGED <<raceVars, hudVars>>

NextTick == \E input \in Inputs, dt \in DeltaTimes : TickCall(input, dt)

SpecTick == InitTick /\ [][NextTick]_vars

----------------------------------------------------------------------------
\* One frame of the game: Game.update applied to the game as it stands at
\* some moment of a race, with the keys held during that frame.

\* Game.restartRace on the tracker: checkpoints.reset() then startRace().
restartRace(s) == startCountdown(reset(s))

\* Clock value at which the j-th countdown callback runs when startRace was
\* called at ClockStep.
TickTime(j) == ClockStep + FirstTickDelay + (j - 1) * TickDelay

\* The tracker after startRace and j countdown callbacks; the fourth gives
\* the go.
RECURSIVE Counted(_)
Counted(j) ==
    IF j = 0 THEN startCountdown(NewRace)
    ELSE tick(Counted(j - 1), TickTime(j)).race

GoTime == TickTime(NewRace.countdownValue + 1)

\* Time the car takes from one checkpoint to the next.
SectorTime == 3 * ClockStep

\* The tracker after the go and k checkpoints passed in order, one every
\* SectorTime.
RECURSIVE Driven(_)
Driven(k) ==
    IF k = 0 THEN Counted(NewRace.countdownValue + 1)
    ELSE LET p == Driven(k - 1)
         IN  update(p, CheckpointPos(p.currentCheckpoint), GoTime + k * SectorTime)

\* Checkpoints passed in a whole race.
RaceLength == totalLaps * NumCheckpoints

\* The car on the centre line one unit outside the zone of checkpoint i,
\* heading for it.
Approach(i) ==
    LET gap == DetectionRadius + LenScale
    IN  CASE i = 0 -> [x |-> centerRadius, z |-> -gap, rotation |-> 0]
          [] i = 1 -> [x |-> gap, z |-> centerRadius, rotation |-> -(PiMilli \div 2)]
          [] i = 2 -> [x |-> -centerRadius, z |-> gap, rotation |-> PiMilli]
          [] i = 3 -> [x |-> -gap, z |-> -centerRadius, rotation |-> PiMilli \div 2]

\* Speeds of the car on its way round: at rest and at half speed.
CruiseSpeeds == {0, (maxSpeed * LenScale) \div 2}

\* Moments of a race at which a frame is rendered: during the countdown
\* (the car waiting at the start), at the go, and on the way to each
\* checkpoint of each lap, the last of them after the finish.
GameMoments ==
    {[race |-> Counted(j), car |-> [x |-> StartX, z |-> StartZ, rotation |-> StartRotation],
      speed |-> 0, at |-> IF j = 0 THEN ClockStep ELSE TickTime(j),
      timers |-> <<TickTime(j + 1)>>, op |-> IF j = 0 THEN "startCountdown" ELSE "tick"]
        : j \in 0..NewRace.countdownValue}
    \cup {[race |-> Driven(0), car |-> [x |-> StartX, z |-> StartZ, rotation |-> StartRotation],
           speed |-> 0, at |-> GoTime, timers |-> <<>>, op |-> "tick"]}
    \cup {[race |-> Driven(k), car |-> Approach(Driven(k).currentCheckpoint),
           speed |-> v, at |-> GoTime + k * SectorTime + ClockStep,
           timers |-> <<>>, op |-> "update"]
        : k \in 1..RaceLength, v \in CruiseSpeeds}

InitGame ==
    \E g \in GameMoments :
        /\ PlacedCar(g.car.x, g.car.z, g.car.rotation)
        /\ currentSpeed = g.speed
        /\ currentCheckpoint = g.race.currentCheckpoint
        /\ lapCount = g.race.lapCount
        /\ raceStartTime = g.race.raceStartTime
        /\ lapTimes = g.race.lapTimes
        /\ lastLapTime = g.race.lastLapTime
        /\ bestLapTime = g.race.bestLapTime
        /\ raceState = g.race.raceState
        /\ countdownValue = g.race.countdownValue
        /\ notes = g.race.notes
        /\ timers = g.timers
        /\ now = g.at
        /\ lastOp = g.op
        /\ startCtx = [stale |-> 0, afterReset |-> FALSE, at |-> ClockStep]
        /\ resetFrom = "none"
        /\ starts = 1
        /\ resets = 0
        /\ directHits = 0
        /\ clockSteps = 0
        /\ fmtMs = 0
        /\ fmtText = NotFormatted
        /\ frame = NoFrame

\* Game.update with the polled input, the frame time and the two restart
\* keys: the car moves if the tracker lets it, the tracker looks at the
\* car's position, R restarts, and Space restarts once the race is finished.
GameUpdate(input, dt, resetKey, spaceKey) ==
    /\ lastOp # "Game.update"
    /\ LET moves   == canMove(Race)
           c       == IF moves THEN CarUpdate(Car, input, dt)
                      ELSE [x |-> posX, z |-> posZ]
           seen    == update(Race, [x |-> c.x, z |-> c.z], now)
           byR     == IF resetKey THEN restartRace(seen) ELSE seen
           bySpace == isRaceFinished(byR) /\ spaceKey
           after   == IF bySpace THEN restartRace(byR) ELSE byR
           n       == (IF resetKey THEN 1 ELSE 0) + (IF bySpace THEN 1 ELSE 0)
       IN  /\ IF n > 0 THEN SetCar(CarReset(StartX, StartZ, StartRotation))
              ELSE IF moves THEN SetCar(c)
              ELSE UNCHANGED <<posX, posZ, rotation, currentSpeed, strike>>
           /\ carTicks' = IF moves THEN carTicks + 1 ELSE carTicks
           /\ SetRace(after)
           /\ timers' = IF n = 0 THEN timers
                        ELSE IF n = 1 THEN SetTimeout(timers, now + FirstTickDelay)
                        ELSE SetTimeout(SetTimeout(timers, now + FirstTickDelay),
                                        now + FirstTickDelay)
           /\ starts' = starts + n
           /\ resets' = resets + n
           /\ resetFrom' = IF bySpace THEN byR.raceState
                           ELSE IF resetKey THEN seen.raceState ELSE resetFrom
           /\ startCtx' = IF n = 0 THEN startCtx
                          ELSE [stale |-> Len(timers) + n - 1, afterReset |-> TRUE, at |-> now]
    /\ frame' = [input |-> input, dt |-> dt, reset |-> resetKey, space |-> spaceKey,
                 before |-> Car]
    /\ lastOp' = "Game.update"
    /\ UNCHANGED <<hudVars, now, directHits, clockSteps>>

NextGame ==
    \E input \in Inputs, dt \in DeltaTimes, resetKey \in BOOL, spaceKey \in BOOL :
        GameUpdate(input, dt, resetKey, spaceKey)

SpecGame == InitGame /\ [][NextGame]_vars

----------------------------------------------------------------------------
\* The time display alone: one duration, formatted by both methods.

InitFormat == Constructed /\ fmtMs \in Durations

FormatCall ==
    /\ fmtText = NotFormatted
    /\ fmtText' = [tracker |-> formatTime(fmtMs), hud |-> HUD_formatTime(fmtMs)]
    /\ lastOp' = "formatTime"
    /\ UNCHANGED <<carVars, raceVars, inputVars, fmtMs>>

NextFormat == FormatCall

SpecFormat == InitFormat /\ [][NextFormat]_vars

----------------------------------------------------------------------------
\* Vocabulary of the properties.

RaceStates == {"waiting", "countdown", "racing", "finished"}

\* Position of a race state in the lifecycle.
Rank(st) ==
    CASE st = "waiting" -> 0
      [] st = "countdown" -> 1
      [] st = "racing" -> 2
      [] st = "finished" -> 3

\* The fields of a tracker value, without the notification history.
Fields(s) ==
    <<s.currentCheckpoint, s.lapCount, s.raceStartTime, s.lapTimes, s.lastLapTime,
      s.bestLapTime, s.raceState, s.countdownValue>>

\* The smallest entry of a non-empty sequence of numbers.
SeqMin(q) == CHOOSE m \in {q[k] : k \in 1..Len(q)} : \A k \in 1..Len(q) : m <= q[k]

IsPrefix(p, q) == Len(p) <= Len(q) /\ \A k \in 1..Len(p) : p[k] = q[k]

\* The notifications of the given kinds, in delivery order.
Notes(kinds) == SelectSeq(notes, LAMBDA n : n.kind \in kinds)

\* The notifications of one uninterrupted countdown.
CleanCountdown == <<Note("tick", 3, 0), Note("tick", 2, 0), Note("tick", 1, 0), Note("go", 0, 0)>>

\* Four hits in checkpoint order, starting from tracker value s.
HitLap(s, t) ==
    hitCheckpoint(hitCheckpoint(hitCheckpoint(hitCheckpoint(s, 0, t), 1, t), 2, t), 3, t)

----------------------------------------------------------------------------
\* C1: after every Car.update call, whatever the inputs and frame times,
\* the car's distance from the track centre lies within [27, 43].
C1_BoundaryInvariant ==
    LET d2 == posX * posX + posZ * posZ
    IN  /\ d2 >= (27 * LenScale) * (27 * LenScale)
        /\ d2 <= (43 * LenScale) * (43 * LenScale)

\* C1 witness: an update has just struck the outer wall.
C1_Witness ==
    /\ lastOp = "Car.update"
    /\ strike.hit
    /\ strike.cand > 43 * LenScale

\* C2: after every Car.update call the speed lies within [-12, 40], also on
\* the ticks where a wall strike rescales it after the clamp.
C2_SpeedClamp ==
    /\ currentSpeed >= -12 * LenScale
    /\ currentSpeed <= 40 * LenScale

\* C2 witness: a wall strike has rescaled a forward speed above 12 into a
\* reverse speed.
C2_Witness ==
    /\ lastOp = "Car.update"
    /\ strike.hit
    /\ strike.clamped > 12 * LenScale
    /\ currentSpeed < 0

\* C3: hitCheckpoint(i) changes no field and delivers no notification
\* unless i is the expected checkpoint; a hit of the expected checkpoint c
\* leaves currentCheckpoint at (c + 1) mod 4.
C3_CheckpointOrder ==
    \A i \in HitIndexes :
        LET after == hitCheckpoint(Race, i, now)
        IN  IF i # currentCheckpoint
            THEN after = Race
            ELSE after.currentCheckpoint = (currentCheckpoint + 1) % NumCheckpoints

\* C3 witness: update() has just hit checkpoint 1 and now expects checkpoint 2.
C3_Witness ==
    /\ lastOp = "update"
    /\ raceState = "racing"
    /\ currentCheckpoint = 2

C5_RaceFinishOnce ==
    LET fin == Notes({"finish"})
    IN  /\ Len(fin) <= 1
        /\ Len(fin) = 1 <=> lapCount >= totalLaps
        /\ (lastOp \in {"update", "hitCheckpoint"} /\ notes # <<>>
              /\ notes[Len(notes)].kind = "finish") =>
              /\ notes[Len(notes)].a = now - raceStartTime
              /\ notes[Len(notes)].b = SeqMin(lapTimes)

\* C6: reset() in any race state leaves every field at its constructor
\* value, and a second reset() changes nothing more.
C6_ResetToConstruction ==
    /\ Fields(reset(Race)) = Fields(NewRace)
    /\ reset(reset(Race)) = reset(Race)
    /\ lastOp = "reset" => Fields(Race) = Fields(NewRace)

\* C6 witness: reset() has just been called on a finished race.
C6_Witness ==
    /\ lastOp = "reset"
    /\ resetFrom = "finished"

\* C7: an attempt started by reset() then startCountdown() while callbacks
\* of an earlier countdown are pending behaves like the first race: ticks
\* 3, 2, 1 once each, then one go, and the race entered only at that go,
\* a full countdown after the start.
C7_RestartLikeFirstRace ==
    (startCtx.afterReset /\ startCtx.stale > 0) =>
        LET cd == Notes({"tick", "go"})
        IN  /\ IsPrefix(cd, CleanCountdown)
            /\ raceState = "racing" =>
                  /\ cd = CleanCountdown
                  /\ raceStartTime = startCtx.at + FirstTickDelay + 3 * TickDelay

\* C8: raceState moves only forward, one step at a time, along waiting,
\* countdown, racing, finished; only reset() moves it back, to waiting.
C8_ForwardOnly ==
    [][IF lastOp' = "reset"
       THEN raceState' = "waiting"
       ELSE Rank(raceState') \in {Rank(raceState), Rank(raceState) + 1}]_vars

\* C9: once the race is finished, nothing but reset() leaves that state or
\* changes the progress: update() and hitCheckpoint() leave
\* currentCheckpoint, lapCount, lapTimes and bestLapTime alone and deliver
\* no lap or finish notification.
C9_FinishedIsTerminal ==
    [][(raceState = "finished" /\ lastOp' # "reset") =>
          /\ raceState' = "finished"
          /\ currentCheckpoint' = currentCheckpoint
          /\ lapCount' = lapCount
          /\ lapTimes' = lapTimes
          /\ bestLapTime' = bestLapTime
          /\ notes' = notes]_vars

\* C10: canMove() is true exactly in the racing state, and false in
\* waiting, countdown and finished.
C10_CanMoveIffRacing ==
    /\ raceState \in RaceStates
    /\ raceState = "racing" => canMove(Race)
    /\ raceState \in {"waiting", "countdown", "finished"} => ~canMove(Race)

\* C10 witness: the countdown's last callback has just let the car move.
C10_Witness ==
    /\ lastOp = "tick"
    /\ raceState = "racing"
    /\ canMove(Race)

\* C11: after one startCountdown() and no reset(), the notifications are
\* onTick(3), onTick(2), onTick(1), onGo() in that order, each once; the
\* race state is countdown until the go and racing from the go on, never
\* before the three ticks.
C11_CountdownOrder ==
    (starts = 1 /\ resets = 0) =>
        LET cd == Notes({"tick", "go"})
        IN  /\ IsPrefix(cd, CleanCountdown)
            /\ raceState = "countdown" <=> Len(cd) < Len(CleanCountdown)
            /\ raceState \in {"racing", "finished"} <=> cd = CleanCountdown

\* C11 witness: the fourth callback of the only countdown has just given
\* the go.
C11_Witness ==
    /\ starts = 1
    /\ resets = 0
    /\ lastOp = "tick"
    /\ raceState = "racing"
    /\ Notes({"tick", "go"}) = CleanCountdown

C13_UpdateInertOutsideRacing ==
    raceState # "racing" =>
        \A pos \in TrackPoints : update(Race, pos, now) = Race

\* C13 witness: update() has just been called during the countdown, after a
\* tick, and a call at the expected checkpoint would change nothing either.
C13_Witness ==
    /\ lastOp = "update"
    /\ raceState = "countdown"
    /\ notes # <<>>
    /\ update(Race, CheckpointPos(currentCheckpoint), now) = Race

\* C14: a hit that completes a lap appends exactly one duration to
\* lapTimes, now - raceStartTime for the first lap and now - (time of the
\* previous lap completion) for a later lap, and sets lastLapTime to now.
C14_LapDurations ==
    (raceState = "racing" /\ lapCount < totalLaps
        /\ currentCheckpoint = NumCheckpoints - 1) =>
        LET after == update(Race, CheckpointPos(currentCheckpoint), now)
            since == IF lapCount = 0 THEN raceStartTime ELSE lastLapTime
        IN  /\ after.lapTimes = Append(lapTimes, now - since)
            /\ after.lastLapTime = now

\* C14 witness: the second lap has just been completed, the first one
\* having taken some time.
C14_Witness ==
    /\ lastOp = "update"
    /\ Len(lapTimes) = 2
    /\ lapTimes[1] > 0
    /\ lastLapTime = now
    /\ lapTimes[2] = now - (raceStartTime + lapTimes[1])

\* C15: getTotalTime() is now - raceStartTime while racing and the sum of
\* the recorded lap times while finished, whatever the clock reads then.
C15_TotalTime ==
    \A t \in {now, now + ClockStep} :
        /\ raceState = "racing" => getTotalTime(Race, t) = t - raceStartTime
        /\ raceState = "finished" => getTotalTime(Race, t) = SeqSum(lapTimes)

\* C15 witness: a race that took some time is finished.
C15_Witness ==
    /\ raceState = "finished"
    /\ Len(lapTimes) = totalLaps
    /\ getTotalTime(Race, now) > 0
    /\ getTotalTime(Race, now) = lapTimes[1] + lapTimes[2] + lapTimes[3]

\* C16: getCurrentLap() equals min(lapCount + 1, totalLaps) in every
\* state, so it lies in 1..totalLaps, and equals totalLaps once the race
\* is finished.
C16_CurrentLap ==
    /\ getCurrentLap(Race) = (IF lapCount + 1 <= totalLaps THEN lapCount + 1 ELSE totalLaps)
    /\ getCurrentLap(Race) \in 1..totalLaps
    /\ isRaceFinished(Race) => getCurrentLap(Race) = totalLaps

\* C16 witness: the race is finished with all laps counted.
C16_Witness ==
    /\ isRaceFinished(Race)
    /\ lapCount = totalLaps
    /\ getCurrentLap(Race) = totalLaps

\* C18: a Car.update tick that starts with |speed| <= 0.5, speed 0
\* included, leaves the heading unchanged for any turn flags and any frame
\* time, also when accelerate or brake is pressed in the same tick.
C18_NoPivotBelowThreshold ==
    [][(lastOp' = "Car.update" /\ Abs(currentSpeed) <= minSpeedToTurn) =>
          rotation' = rotation]_vars

\* C18 witness: a tick that started at rest has set the car in motion, and
\* a tick with turnLeft and accelerate held from rest keeps the heading.
C18_Witness ==
    /\ lastOp = "Car.update"
    /\ strike.fromX = StartX
    /\ strike.fromZ = StartZ
    /\ currentSpeed > minSpeedToTurn
    /\ rotation = StartRotation
    /\ CarUpdate(CarReset(StartX, StartZ, StartRotation),
                 [accelerate |-> TRUE, brake |-> FALSE,
                  turnLeft |-> TRUE, turnRight |-> FALSE], 1000).rotation = StartRotation

\* C19: on a tick whose candidate position lies outside the annulus
\* [27, 43] the candidate is not committed: the speed changes sign and
\* shrinks to 0.3 of its size, and the car is put on the ray of its
\* pre-update position at the candidate distance clamped to [28, 42]; on a
\* tick whose candidate lies inside, the candidate is committed and the
\* speed is kept.  Equalities hold to the last fixed-point digit.
C19_WallStrike ==
    lastOp = "Car.update" =>
        LET speed  == strike.clamped
            d2     == strike.candX * strike.candX + strike.candZ * strike.candZ
            inside == /\ d2 >= (27 * LenScale) * (27 * LenScale)
                      /\ d2 <= (43 * LenScale) * (43 * LenScale)
            target == Max(28 * LenScale, Min(42 * LenScale, strike.cand))
        IN  IF inside
            THEN /\ posX = strike.candX
                 /\ posZ = strike.candZ
                 /\ currentSpeed = speed
            ELSE /\ Abs(10 * currentSpeed + 3 * speed) < 10
                 /\ speed > 3 => currentSpeed < 0
                 /\ speed < -3 => currentSpeed > 0
                 /\ Abs(DistFromCenter(posX, posZ) - target) <= 2
                 /\ Abs(posX * strike.fromZ - posZ * strike.fromX)
                       <= Abs(strike.fromX) + Abs(strike.fromZ)
                 /\ posX * strike.fromX + posZ * strike.fromZ > 0

\* C19 witness: a tick has struck the outer wall at forward speed and left
\* the car one unit inside it, on the ray it stood on, in reverse.
C19_Witness ==
    /\ lastOp = "Car.update"
    /\ strike.candX * strike.candX + strike.candZ * strike.candZ
          > (43 * LenScale) * (43 * LenScale)
    /\ strike.clamped > 0
    /\ 10 * currentSpeed = -3 * strike.clamped
    /\ Abs(DistFromCenter(posX, posZ) - 42 * LenScale) <= 2
    /\ posX * strike.fromZ = posZ * strike.fromX

\* C20: lapCount is incremented only by an update() whose position lies in
\* the detection zone of checkpoint 0, the start/finish line.
C20_LapAtStartLine ==
    \A pos \in TrackPoints :
        update(Race, pos, now).lapCount > lapCount =>
            Distance(pos, CheckpointPos(0)) < DetectionRadius

----------------------------------------------------------------------------
\* Vocabulary of the display property.

\* n < 100 in exactly two digits, n < 1000 in exactly three.
TwoDigits(n) == <<DigitChar(n \div 10), DigitChar(n % 10)>>
ThreeDigits(n) == <<DigitChar(n \div 100), DigitChar((n \div 10) % 10), DigitChar(n % 10)>>

\* M:SS.mmm for a duration in milliseconds.
Clock(ms) ==
    toString(ms \div 60000) \o <<":">> \o TwoDigits((ms \div 1000) % 60)
        \o <<".">> \o ThreeDigits(ms % 1000)

\* C17: for every integer duration ms >= 0, formatTime(ms) of the tracker
\* and of the HUD both yield M:SS.mmm with M = floor(ms / 60000) unpadded,
\* SS = floor(ms / 1000) mod 60 in two digits and mmm = ms mod 1000 in
\* three; formatTime(65432) is "1:05.432"; the two methods agree.
C17_FormatTime ==
    /\ formatTime(65432) = <<"1", ":", "0", "5", ".", "4", "3", "2">>
    /\ HUD_formatTime(65432) = <<"1", ":", "0", "5", ".", "4", "3", "2">>
    /\ lastOp = "formatTime" =>
          /\ fmtText.tracker = Clock(fmtMs)
          /\ fmtText.hud = Clock(fmtMs)
          /\ fmtText.tracker = fmtText.hud

\* C17 witness: both methods have formatted 65432 ms as 1:05.432.
C17_Witness ==
    /\ lastOp = "formatTime"
    /\ fmtMs = 65432
    /\ fmtText.tracker = <<"1", ":", "0", "5", ".", "4", "3", "2">>
    /\ fmtText.hud = fmtText.tracker

----------------------------------------------------------------------------
\* C22: within one attempt onLapComplete is delivered once per completed
\* lap, in the step that completes it, with the lap numbers 1, 2, ... in
\* order and the duration just appended to lapTimes; the call for the
\* final lap comes before onRaceFinish.
C22_LapNotifications ==
    LET laps  == Notes({"lap"})
        ends  == Notes({"lap", "finish"})
    IN  /\ Len(laps) = lapCount
        /\ lapCount <= totalLaps
        /\ \A k \in 1..Len(laps) : laps[k].a = k /\ laps[k].b = lapTimes[k]
        /\ \A k \in 1..Len(ends) :
              ends[k].kind = "finish" =>
                  /\ k = Len(ends)
                  /\ k > 1
                  /\ ends[k - 1] = Note("lap", totalLaps, lapTimes[totalLaps])

\* C22 witness: update() has just completed the final lap and the finish
\* notification follows the third lap notification.
C22_Witness ==
    /\ lastOp = "update"
    /\ Len(Notes({"lap"})) = totalLaps
    /\ notes[Len(notes)].kind = "finish"
    /\ notes[Len(notes) - 1] = Note("lap", totalLaps, lapTimes[totalLaps])

\* The tracker after n more update() calls, at clock value t, of a car that
\* visits the checkpoint zones the wrong way round: 3, 2, 1, 0, 3, 2, ...
RECURSIVE ReverseDrive(_, _, _)
ReverseDrive(s, n, t) ==
    IF n = 0 THEN s
    ELSE update(ReverseDrive(s, n - 1, t),
                CheckpointPos((NumCheckpoints - 1) - ((n - 1) % NumCheckpoints)), t)

\* C23: a car that, while racing, visits the checkpoint zones only in the
\* order 3, 2, 1, 0, 3, 2, ... registers no progress, however long it
\* goes on: lapCount never increases.
C23_ReverseNoProgress ==
    raceState = "racing" =>
        \A n \in 0..MaxReverseVisits :
            ReverseDrive(Race, n, now).lapCount = lapCount

\* C29: in every state between operations currentCheckpoint lies in
\* 0..3, so the checkpoint update() looks up always exists.
C29_CheckpointInRange == currentCheckpoint \in 0..(NumCheckpoints - 1)

\* C29 witness: update() has just hit the last checkpoint and the expected
\* checkpoint has wrapped round to 0.
C29_Witness ==
    /\ lastOp = "update"
    /\ lapCount > 0
    /\ lastLapTime = now
    /\ currentCheckpoint = 0

\* C30: in every reachable state, after any sequence of startCountdown(),
\* timer callbacks, update(), hitCheckpoint() and reset(), lapCount lies in
\* 0..totalLaps.
C30_LapCountInRange == lapCount \in 0..totalLaps

\* C28: when no reset() occurs and every scheduled callback eventually
\* runs, a countdown always leads to Racing, and the callbacks pending are
\* never more than one per startCountdown() call.
C28_CountdownReachesRacing ==
    /\ [](Len(timers) <= starts)
    /\ (raceState = "countdown") ~> (raceState = "racing")

\* C28 witness: the callback of a countdown that nothing reset has just
\* started the race, after the clock waited for it.
C28_Witness ==
    /\ lastOp = "tick"
    /\ resets = 0
    /\ raceState = "racing"
    /\ raceStartTime = now
    /\ now >= ClockStep + FirstTickDelay + 3 * TickDelay
    /\ timers = <<>>

\* The direction of a speed: 1 forward, -1 reversing, 0 at rest.
SignOf(n) == IF n > 0 THEN 1 ELSE IF n < 0 THEN -1 ELSE 0

\* C25: after a Car.update with neither accelerate nor brake pressed and no
\* wall strike, the speed has moved toward zero by deceleration*deltaTime
\* and stopped at zero: it has not changed sign and its magnitude has not
\* grown, whatever deltaTime was.
C25_CoastingDecay ==
    (lastOp = "Car.update" /\ ~frame.input.accelerate /\ ~frame.input.brake /\ ~strike.hit) =>
        LET was   == frame.before.speed
            decay == Quot(deceleration * LenScale * frame.dt, MsPerSec)
        IN  /\ Abs(currentSpeed) = Max(0, Abs(was) - decay)
            /\ SignOf(currentSpeed) \in {0, SignOf(was)}
            /\ was > 0 => currentSpeed >= 0
            /\ was < 0 => currentSpeed <= 0
            /\ was = 0 => currentSpeed = 0
            /\ Abs(currentSpeed) <= Abs(was)

\* C25 witness: a coasting tick longer than the car needed to stop has
\* left a car that was reversing at rest.
C25_Witness ==
    /\ lastOp = "Car.update"
    /\ ~frame.input.accelerate /\ ~frame.input.brake
    /\ ~strike.hit
    /\ frame.before.speed < 0
    /\ Quot(deceleration * LenScale * frame.dt, MsPerSec) > Abs(frame.before.speed)
    /\ currentSpeed = 0

\* C26: after a Car.update with accelerate pressed, speed, heading and
\* position are those the same call gives with the brake flag flipped, and
\* the throttle did not lower the speed; with brake alone the speed went
\* down by brakeForce*deltaTime, as far as the reverse limit.
C26_AccelerateWins ==
    lastOp = "Car.update" =>
        LET other == CarUpdate(frame.before,
                               [frame.input EXCEPT !.brake = ~frame.input.brake], frame.dt)
            drop  == Quot(brakeForce * LenScale * frame.dt, MsPerSec)
        IN  /\ frame.input.accelerate =>
                  /\ other.speed = currentSpeed
                  /\ other.rotation = rotation
                  /\ other.x = posX /\ other.z = posZ
                  /\ strike.clamped >= frame.before.speed
            /\ (~frame.input.accelerate /\ frame.input.brake) =>
                  strike.clamped = Max(-maxReverse, frame.before.speed - drop)

\* C26 witness: a tick with accelerate and brake both pressed has sped the
\* car up.
C26_Witness ==
    /\ lastOp = "Car.update"
    /\ frame.input.accelerate /\ frame.input.brake
    /\ frame.dt > 0
    /\ ~strike.hit
    /\ currentSpeed > frame.before.speed

\* C27: after a Car.update that found |speed| > 0.5, the heading has
\* changed by (turnRight - turnLeft) * turnRate * deltaTime if the car was
\* going forward and by the opposite if it was reversing, whatever the
\* magnitude of the speed.
C27_SteeringRate ==
    (lastOp = "Car.update" /\ Abs(frame.before.speed) > minSpeedToTurn) =>
        LET dir == (IF frame.input.turnRight THEN 1 ELSE 0)
                   - (IF frame.input.turnLeft THEN 1 ELSE 0)
        IN  rotation - frame.before.rotation
                = SignOf(frame.before.speed) * dir * ((turnSpeed * frame.dt) \div MsPerSec)

\* C27 witness: a reversing car steered right has turned left.
C27_Witness ==
    /\ lastOp = "Car.update"
    /\ frame.before.speed < -minSpeedToTurn
    /\ frame.input.turnRight /\ ~frame.input.turnLeft
    /\ frame.dt > 0
    /\ rotation < frame.before.rotation

\* C24: a Game.update frame that finds the race not Racing and has no
\* restart key pressed leaves the car's position, heading and speed as they
\* were, whatever the input flags; and Car.update runs in a frame only if
\* the frame found the race Racing.
C24_CarFrozenUnlessRacing ==
    [][lastOp' = "Game.update" =>
          /\ (raceState # "racing" /\ ~frame'.reset /\ ~frame'.space) =>
                 /\ posX' = posX /\ posZ' = posZ
                 /\ rotation' = rotation
                 /\ currentSpeed' = currentSpeed
          /\ carTicks' # carTicks => raceState = "racing"
          /\ raceState = "racing" => carTicks' = carTicks + 1]_vars

\* C24 witness: a frame with the accelerator held after the finish has left
\* a car that was rolling exactly as it was.
C24_Witness ==
    /\ lastOp = "Game.update"
    /\ raceState = "finished"
    /\ frame.input.accelerate /\ frame.dt > 0
    /\ ~frame.reset /\ ~frame.space
    /\ carTicks = 0
    /\ currentSpeed > 0
    /\ currentSpeed = frame.before.speed
    /\ posX = frame.before.x /\ posZ = frame.before.z

\* C21: a Game.update frame with Space pressed and R not restarts nothing
\* if it finds the race in Waiting, Countdown or Racing (no reset, no new
\* countdown, no lap lost), and if it finds the race Finished it puts the
\* car at the start at rest, resets the tracker and starts a countdown.
C21_SpaceRestartsOnlyFinished ==
    [][(lastOp' = "Game.update" /\ frame'.space /\ ~frame'.reset) =>
          IF raceState = "finished"
          THEN /\ posX' = StartX /\ posZ' = StartZ
               /\ rotation' = StartRotation /\ currentSpeed' = 0
               /\ currentCheckpoint' = 0 /\ lapCount' = 0 /\ lapTimes' = <<>>
               /\ raceStartTime' = Null /\ lastLapTime' = Null /\ bestLapTime' = Null
               /\ raceState' = "countdown" /\ countdownValue' = NewRace.countdownValue
               /\ timers' = SetTimeout(timers, now + FirstTickDelay)
          ELSE /\ resets' = resets /\ starts' = starts
               /\ timers' = timers
               /\ lapCount' >= lapCount
               /\ IsPrefix(lapTimes, lapTimes')]_vars

\* C31: in every reachable state bestLapTime is unset exactly when lapTimes
\* is empty, and otherwise is the minimum of lapTimes, laps of duration 0
\* included.
C31_BestIsMinimum ==
    /\ bestLapTime = Null <=> lapTimes = <<>>
    /\ lapTimes # <<>> => bestLapTime = SeqMin(lapTimes)

\* C32: a countdown callback that runs while raceState is not Countdown
\* changes no field of the tracker and delivers neither onTick nor onGo.
C32_TickOnlyInCountdown ==
    [][(lastOp' = "tick" /\ raceState # "countdown") =>
          /\ UNCHANGED raceFields
          /\ notes' = notes]_vars

\* C33: in every reachable state lapTimes has lapCount entries, and every
\* step other than reset() keeps the entries lapTimes had, in place, adding
\* at most one at the end.
C33_LapTimesAppendOnly ==
    /\ [](Len(lapTimes) = lapCount)
    /\ [][lastOp' # "reset" =>
              /\ IsPrefix(lapTimes, lapTimes')
              /\ Len(lapTimes') <= Len(lapTimes) + 1]_vars

\* C33 witness: update() has just completed a second lap whose duration
\* differs from the first, which is still stored.
C33_Witness ==
    /\ lastOp = "update"
    /\ lapCount = 2
    /\ Len(lapTimes) = 2
    /\ lastLapTime = now
    /\ lapTimes[1] # lapTimes[2]

C35_FinishedIffAllLaps ==
    raceState = "finished" <=> lapCount = totalLaps

\* C36: in every reachable state countdownValue lies in 0..3, whatever way
\* startCountdown(), reset() and the callbacks of overlapping countdown
\* chains interleave.
C36_CountdownValueInRange == countdownValue \in 0..NewRace.countdownValue

\* C36 witness: with two countdown chains started, a callback of one has
\* just given the go while a callback of the other is still pending.
C36_Witness ==
    /\ lastOp = "tick"
    /\ starts = 2
    /\ countdownValue = 0
    /\ raceState = "racing"
    /\ timers # <<>>

\* C37: while raceState is Racing, no step other than reset() changes
\* raceStartTime.
C37_StartTimeWrittenOnce ==
    [][(raceState = "racing" /\ lastOp' # "reset") =>
          raceStartTime' = raceStartTime]_vars

\* C38: in Finished, getTotalTime() equals lastLapTime - raceStartTime and
\* is not greater than the totalTime handed to onRaceFinish.
C38_TotalTimeAtFinish ==
    raceState = "finished" =>
        /\ getTotalTime(Race, now) = lastLapTime - raceStartTime
        /\ \A k \in 1..Len(notes) :
              notes[k].kind = "finish" => getTotalTime(Race, now) <= notes[k].a

====
